---- MODULE Spec2Model ----
(***************************************************************************)
(* Model of the insurance-bundle pipeline: the two cleaners (preprocess in *)
(* solution.py, clean_data in src/features.py), the feature splitter, the  *)
(* predictor (predict in solution.py), the serving adapter (API/main.py)   *)
(* and the trainer (src/train.py).                                         *)
(*                                                                         *)
(* A table (pandas DataFrame) is a record                                  *)
(*   cols : the ordered column names                                       *)
(*   rows : a sequence of rows, each a function column -> cell             *)
(*   cats : a function whose domain is the set of columns of dtype         *)
(*          'category', giving each its set of categories                  *)
(* A cell is a string; the missing value (NaN/None) is the string "NaN".   *)
(***************************************************************************)
EXTENDS Integers, Sequences, FiniteSets, TLC

NaN == "NaN"

\* ------------------------------------------------------------------------
\* Bounds of the model

\* largest number of rows of an input table
MaxRows == 2

\* number of worker threads that handle requests at the same time
NumWorkers == 2

\* largest number of training rows of one class
MaxPerClass == 4

\* largest best iteration the early-stopped probe fit is taken to report
MaxBestIter == 2

\* ------------------------------------------------------------------------
\* Generic table helpers (pandas operations used by the code)

Range(s) == {s[i] : i \in DOMAIN s}

ColSet(t) == Range(t.cols)

HasCol(t, c) == c \in ColSet(t)

NoTable == [cols |-> <<>>, rows |-> <<>>, cats |-> <<>>]

Column(t, c) == [i \in DOMAIN t.rows |-> t.rows[i][c]]

\* df.drop(columns=[c])
DropColumn(t, c) ==
    [cols |-> SelectSeq(t.cols, LAMBDA x : x # c),
     rows |-> [i \in DOMAIN t.rows |-> [k \in ColSet(t) \ {c} |-> t.rows[i][k]]],
     cats |-> [k \in (DOMAIN t.cats) \ {c} |-> t.cats[k]]]

\* df[c] = series, the series being of an ordinary (non-category) dtype:
\* an existing column keeps its place, a new one is appended
SetColumn(t, c, series) ==
    [cols |-> IF HasCol(t, c) THEN t.cols ELSE Append(t.cols, c),
     rows |-> [i \in DOMAIN t.rows |->
                 [k \in ColSet(t) \cup {c} |-> IF k = c THEN series[i] ELSE t.rows[i][k]]],
     cats |-> [k \in (DOMAIN t.cats) \ {c} |-> t.cats[k]]]

\* df[c] = scalar: the scalar in every row
SetScalar(t, c, v) == SetColumn(t, c, [i \in DOMAIN t.rows |-> v])

\* df[c] = df[c].astype('category'): a column already of category dtype is
\* left as it is, otherwise the categories are the distinct non-missing values
AsCategory(t, c) ==
    IF c \in DOMAIN t.cats THEN t
    ELSE [t EXCEPT !.cats = [k \in (DOMAIN t.cats) \cup {c} |->
                               IF k = c THEN Range(Column(t, c)) \ {NaN}
                               ELSE t.cats[k]]]

\* df[cols]: selects the columns in the order asked for
SelectColumns(t, cs) ==
    [cols |-> cs,
     rows |-> [i \in DOMAIN t.rows |-> [k \in Range(cs) |-> t.rows[i][k]]],
     cats |-> [k \in (DOMAIN t.cats) \cap Range(cs) |-> t.cats[k]]]

\* Results of a cleaner: a table, or the exception that left it
Ok(t) == [ok |-> TRUE, table |-> t, etype |-> "", msg |-> ""]

Err(etype, msg) == [ok |-> FALSE, table |-> NoTable, etype |-> etype, msg |-> msg]

\* Series.fillna(v) on column c, written back with df[c] = ...
\*  - an ordinary column: every missing cell becomes v
\*  - a category column: v must be one of the categories; pandas raises
\*    TypeError when a missing cell has to take a new category, and, in the
\*    releases that validate the fill value even when nothing is missing
\*    (strict), also when no cell is missing
FillNa(t, c, v, strict) ==
    LET missing == \E i \in DOMAIN t.rows : t.rows[i][c] = NaN
        filled  == [i \in DOMAIN t.rows |->
                      [k \in ColSet(t) |->
                         IF k = c /\ t.rows[i][k] = NaN THEN v ELSE t.rows[i][k]]]
    IN  IF c \in DOMAIN t.cats /\ v \notin t.cats[c] /\ (missing \/ strict)
        THEN Err("TypeError", "Cannot setitem on a Categorical with a new category")
        ELSE Ok([t EXCEPT !.rows = filled])

\* ------------------------------------------------------------------------
\* solution.py: constants

FEATURE_COLUMNS ==
    << "Policy_Cancelled_Post_Purchase", "Policy_Start_Year", "Policy_Start_Week",
       "Policy_Start_Day", "Grace_Period_Extensions", "Previous_Policy_Duration_Months",
       "Adult_Dependents", "Child_Dependents", "Infant_Dependents",
       "Existing_Policyholder", "Previous_Claims_Filed", "Years_Without_Claims",
       "Policy_Amendments_Count", "Underwriting_Processing_Days", "Vehicles_on_Policy",
       "Custom_Riders_Requested", "Broker_Agency_Type", "Deductible_Tier",
       "Acquisition_Channel", "Payment_Schedule", "Employment_Status",
       "Estimated_Annual_Income", "Days_Since_Quote", "month_sin", "month_cos" >>

CATEGORICAL_COLUMNS ==
    << "Broker_Agency_Type", "Deductible_Tier", "Acquisition_Channel",
       "Payment_Schedule", "Employment_Status" >>

MonthNames ==
    << "Jan", "Feb", "Mar", "Apr", "May", "Jun", "Jul", "Aug", "Sep", "Oct", "Nov", "Dec" >>

\* MONTH_MAP, as Series.map(MONTH_MAP).fillna(1) uses it: a value that is
\* no key of the map (a missing one included) gives 1
MONTH_MAP(v) ==
    IF v \in Range(MonthNames)
    THEN CHOOSE m \in DOMAIN MonthNames : MonthNames[m] = v
    ELSE 1

\* np.sin(2 * np.pi * m / 12) and np.cos(2 * np.pi * m / 12), m in 1..12,
\* to three decimals
MonthSin ==
    << "0.5", "0.866", "1.0", "0.866", "0.5", "0.0",
       "-0.5", "-0.866", "-1.0", "-0.866", "-0.5", "0.0" >>

MonthCos ==
    << "0.866", "0.5", "0.0", "-0.5", "-0.866", "-1.0",
       "-0.866", "-0.5", "0.0", "0.5", "0.866", "1.0" >>

\* ------------------------------------------------------------------------
\* src/features.py: constants

FEATURES_CATEGORICAL_COLUMNS ==
    << "Region_Code", "Broker_Agency_Type", "Deductible_Tier", "Acquisition_Channel",
       "Payment_Schedule", "Employment_Status", "Policy_Start_Month" >>

TARGET_COLUMN == "Purchased_Coverage_Bundle"

\* ------------------------------------------------------------------------
\* The cleaners.  A step of a cleaner takes the result so far and passes an
\* exception on unchanged.

\* for col in cs: if col in df.columns: df = df.drop(columns=[col])
RECURSIVE DropIfPresent(_, _)
DropIfPresent(t, cs) ==
    IF cs = <<>> THEN t
    ELSE DropIfPresent(IF HasCol(t, Head(cs)) THEN DropColumn(t, Head(cs)) ELSE t,
                       Tail(cs))

\* for col in cs: if col in df.columns: df[col] = df[col].astype('category')
RECURSIVE TagCategorical(_, _)
TagCategorical(t, cs) ==
    IF cs = <<>> THEN t
    ELSE TagCategorical(IF HasCol(t, Head(cs)) THEN AsCategory(t, Head(cs)) ELSE t,
                        Tail(cs))

\* df[c] = df[c].fillna(v), with no test that the column is there:
\* df[c] raises KeyError when it is not
FillRequired(r, c, v, strict) ==
    IF ~r.ok THEN r
    ELSE IF ~HasCol(r.table, c) THEN Err("KeyError", c)
    ELSE FillNa(r.table, c, v, strict)

\* if c in df.columns: df[c] = df[c].fillna(v)
FillIfPresent(r, c, v, strict) ==
    IF ~r.ok THEN r
    ELSE IF ~HasCol(r.table, c) THEN r
    ELSE FillNa(r.table, c, v, strict)

\* preprocess, lines 74-78: the cyclical month encoding
EncodeMonth(t) ==
    IF ~HasCol(t, "Policy_Start_Month") THEN t
    ELSE LET month_num == [i \in DOMAIN t.rows |-> MONTH_MAP(t.rows[i]["Policy_Start_Month"])]
             t1 == SetColumn(t, "month_sin", [i \in DOMAIN t.rows |-> MonthSin[month_num[i]]])
             t2 == SetColumn(t1, "month_cos", [i \in DOMAIN t.rows |-> MonthCos[month_num[i]]])
         IN  DropColumn(t2, "Policy_Start_Month")

\* the columns preprocess drops
PreprocessDropped == << "Employer_ID", "Broker_ID", "Region_Code" >>

\* solution.py preprocess(df)
preprocess(df, strict) ==
    LET t1 == DropIfPresent(df, PreprocessDropped)
        t2 == IF HasCol(t1, TARGET_COLUMN) THEN DropColumn(t1, TARGET_COLUMN) ELSE t1
        r3 == FillRequired(Ok(t2), "Child_Dependents", "0", strict)
        r4 == FillRequired(r3, "Deductible_Tier", "Unknown", strict)
        r5 == FillRequired(r4, "Acquisition_Channel", "Unknown", strict)
    IN  IF ~r5.ok THEN r5
        ELSE Ok(TagCategorical(EncodeMonth(r5.table), CATEGORICAL_COLUMNS))

\* the columns clean_data drops
CleanDataDropped == << "Employer_ID" >>

\* src/features.py clean_data(df)
clean_data(df, strict) ==
    LET t1 == DropIfPresent(df, CleanDataDropped)
        r2 == FillIfPresent(Ok(t1), "Child_Dependents", "0", strict)
        r3 == FillIfPresent(r2, "Region_Code", "Unknown", strict)
        r4 == FillIfPresent(r3, "Deductible_Tier", "Unknown", strict)
        r5 == FillIfPresent(r4, "Acquisition_Channel", "Unknown", strict)
        r6 == FillIfPresent(r5, "Broker_ID", "-1", strict)
    IN  IF ~r6.ok THEN r6
        ELSE Ok(TagCategorical(r6.table, FEATURES_CATEGORICAL_COLUMNS))

\* src/features.py split_features_target(df): the feature table X; y is the
\* target column (KeyError when the table has none)
split_features_target(df) ==
    IF ~HasCol(df, TARGET_COLUMN) THEN Err("KeyError", TARGET_COLUMN)
    ELSE Ok(SelectColumns(df, SelectSeq(df.cols,
                LAMBDA c : c \notin {"User_ID", TARGET_COLUMN})))

\* ------------------------------------------------------------------------
\* The model artifact, as predict sees it: whether it carries
\* feature_names_in_, the names, and the columns it was fit on as categorical

\* src/train.py, final_model.fit(X, y, categorical_feature=cat_features_full):
\* the artifact fit on feature table X
FitArtifact(X) ==
    [has_names |-> TRUE, feature_names_in |-> X.cols, categorical |-> DOMAIN X.cats]

\* an artifact without feature_names_in_, fit on the columns of FEATURE_COLUMNS
BareArtifact ==
    [has_names |-> FALSE, feature_names_in |-> <<>>,
     categorical |-> Range(CATEGORICAL_COLUMNS)]

\* ------------------------------------------------------------------------
\* solution.py predict(model, df)

\* except ValueError: the exception types that are ValueError or derive from
\* it (lightgbm's LGBMNotFittedError derives from sklearn's NotFittedError,
\* a ValueError)
IsValueError_ExactType(etype) == etype = "ValueError"

IsValueError(etype) == etype \in {"ValueError", "LGBMNotFittedError"}

MissingIdMessage == "The input DataFrame must contain a 'User_ID' column."

\* line 117
ExpectedFeatures(model) ==
    IF model.has_names THEN model.feature_names_in ELSE FEATURE_COLUMNS

\* lines 123-126: the default of a feature the input lacks
BackfillDefault(feature) ==
    IF feature \in Range(CATEGORICAL_COLUMNS) THEN "Unknown" ELSE "0"

\* lines 120-126
RECURSIVE Backfill(_, _)
Backfill(t, fs) ==
    IF fs = <<>> THEN t
    ELSE Backfill(IF HasCol(t, Head(fs)) THEN t
                  ELSE SetScalar(t, Head(fs), BackfillDefault(Head(fs))),
                  Tail(fs))

\* y_pred.astype(int): a float class code, kept in tenths, truncated towards 0
AsInt(x) == IF x >= 0 THEN x \div 10 ELSE -((-x) \div 10)

ToIntList_Raw(y) == y

\* line 137
ToIntList(y) == [i \in DOMAIN y |-> AsInt(y[i])]

\* line 114 and 136
UserIds(t) == Column(t, "User_ID")

RewrapValueError_Wrapped(etype, msg) ==
    << "An error occurred during prediction: ", etype, ": ", msg >>

\* line 142: raise ValueError(str(ve))
RewrapValueError(etype, msg) == << msg >>

\* line 145
RewrapOther(etype, msg) == << "An error occurred during prediction: ", etype, ": ", msg >>

\* what predict leaves: the returned dictionary or the ValueError raised
\* (etype, text), and for the record what the classifier was handed (X) and
\* returned (y_pred) and the exception caught inside (raised, raised_msg)
PredictError(text, called, X, etype, msg) ==
    [kind |-> "error", User_ID |-> <<>>, recommended_bundle |-> <<>>,
     etype |-> "ValueError", text |-> text,
     called |-> called, X |-> X, y_pred |-> <<>>,
     raised |-> etype, raised_msg |-> msg]

PredictOk(ids, y, X) ==
    [kind |-> "ok", User_ID |-> ids, recommended_bundle |-> ToIntList(y),
     etype |-> "", text |-> <<>>,
     called |-> TRUE, X |-> X, y_pred |-> y,
     raised |-> "", raised_msg |-> ""]

\* the except clauses, lines 140-145
Rewrap(etype, msg) ==
    IF IsValueError(etype) THEN RewrapValueError(etype, msg)
    ELSE RewrapOther(etype, msg)

\* predict(model, df); oc is what model.predict does on the selected table:
\* it raises (oc.raises, oc.etype, oc.msg) or returns the codes oc.y
predict(model, df, oc) ==
    IF ~HasCol(df, "User_ID")
    THEN PredictError(Rewrap("ValueError", MissingIdMessage), FALSE, NoTable,
                      "ValueError", MissingIdMessage)
    ELSE LET user_ids == UserIds(df)
             expected_features == ExpectedFeatures(model)
             df_work == Backfill(df, expected_features)
             X == SelectColumns(df_work, expected_features)
         IN  IF oc.raises
             THEN PredictError(Rewrap(oc.etype, oc.msg), TRUE, X, oc.etype, oc.msg)
             ELSE PredictOk(user_ids, oc.y, X)

\* what model.predict may do on a table of n rows
ClassCodes == {30, 90}

ClassifierErrors == {"ValueError", "LGBMNotFittedError", "KeyError", "TypeError"}

ClassifierMessages == {"bad input", "17"}

ClassifierOutcomes(n) ==
    {[raises |-> TRUE, etype |-> e, msg |-> m, y |-> <<>>] :
        e \in ClassifierErrors, m \in ClassifierMessages}
    \cup {[raises |-> FALSE, etype |-> "", msg |-> "", y |-> y] : y \in [1..n -> ClassCodes]}

\* ------------------------------------------------------------------------
\* Input tables: raw record tables over a part of the raw schema

RawCols ==
    << "User_ID", "Region_Code", "Broker_ID", "Employer_ID", "Child_Dependents",
       "Deductible_Tier", "Acquisition_Channel", "Employment_Status",
       "Vehicles_on_Policy", "Policy_Start_Month", "Purchased_Coverage_Bundle" >>

\* the columns an input table may lack (at most one of them at a time)
OptionalCols ==
    { "User_ID", "Region_Code", "Broker_ID", "Employer_ID", "Child_Dependents",
      "Deductible_Tier", "Policy_Start_Month", "Purchased_Coverage_Bundle" }

RawRow(uid, region, broker, employer, child, tier, channel, status, vehicles, month, bundle) ==
    [c \in Range(RawCols) |->
        CASE c = "User_ID" -> uid
          [] c = "Region_Code" -> region
          [] c = "Broker_ID" -> broker
          [] c = "Employer_ID" -> employer
          [] c = "Child_Dependents" -> child
          [] c = "Deductible_Tier" -> tier
          [] c = "Acquisition_Channel" -> channel
          [] c = "Employment_Status" -> status
          [] c = "Vehicles_on_Policy" -> vehicles
          [] c = "Policy_Start_Month" -> month
          [] OTHER -> bundle]

\* the rows a raw table is made of: fully populated, everything missing that
\* can be, and one with the literal "Unknown" and an unmapped month
RawRows ==
    { RawRow("U1", "R1", "7", "E1", "2", "Low", "Online", "Employed", "1", "Jul", "3"),
      RawRow("U2", NaN, NaN, NaN, NaN, NaN, NaN, "Retired", "0", NaN, "7"),
      RawRow("U3", "R2", "9", NaN, "0", "Unknown", "Agent", "Employed", "2", "xyz", "0") }

RECURSIVE SeqsUpTo(_, _)
SeqsUpTo(S, n) ==
    IF n = 0 THEN {<<>>}
    ELSE LET shorter == SeqsUpTo(S, n - 1)
         IN  shorter \cup {Append(q, x) : q \in {r \in shorter : Len(r) = n - 1}, x \in S}

FullRawTable(rows) == [cols |-> RawCols, rows |-> rows, cats |-> <<>>]

RawTables ==
    LET full == {FullRawTable(rows) : rows \in SeqsUpTo(RawRows, MaxRows)}
    IN  full \cup {DropColumn(t, c) : t \in full, c \in OptionalCols}

\* the table the artifacts of the model are fit on
TrainRows ==
    << RawRow("U1", "R1", "7", "E1", "2", "Low", "Online", "Employed", "1", "Jul", "3"),
       RawRow("U2", NaN, NaN, NaN, NaN, NaN, NaN, "Retired", "0", NaN, "7") >>

\* src/train.py train_model, lines 85-88 and 169: clean_data, then
\* split_features_target, then the fit
TrainedArtifact(strict) ==
    FitArtifact(split_features_target(clean_data(FullRawTable(TrainRows), strict).table).table)

\* an artifact fit on what preprocess makes of the training table
ServingArtifact(strict) ==
    FitArtifact(DropColumn(preprocess(FullRawTable(TrainRows), strict).table, "User_ID"))

Artifacts(strict) == {TrainedArtifact(strict), ServingArtifact(strict), BareArtifact}

\* ------------------------------------------------------------------------
\* What a call does to the table the caller passed in.  A frame follows the
\* function's local name: the table it refers to now (work), whether that is
\* still the caller's object (alias), what the caller's object holds (caller),
\* and the exception raised, if one was.

CopyFrame_Alias(t) ==
    [caller |-> t, work |-> t, alias |-> TRUE, ok |-> TRUE, etype |-> ""]

\* df = df.copy() / df_work = df.copy(): the local name refers to a new object
CopyFrame(t) ==
    [caller |-> t, work |-> t, alias |-> FALSE, ok |-> TRUE, etype |-> ""]

\* df = df.drop(...), X = df_work[...].copy(): the name is bound to a new object
Rebind(f, t) == [f EXCEPT !.work = t, !.alias = FALSE]

\* df[c] = ...: the object the name refers to is changed in place
AssignInPlace(f, t) ==
    [f EXCEPT !.work = t, !.caller = IF f.alias THEN t ELSE f.caller]

Raise(f, etype) == [f EXCEPT !.ok = FALSE, !.etype = etype]

RECURSIVE FrameDropIfPresent(_, _)
FrameDropIfPresent(f, cs) ==
    IF cs = <<>> THEN f
    ELSE FrameDropIfPresent(IF HasCol(f.work, Head(cs))
                            THEN Rebind(f, DropColumn(f.work, Head(cs))) ELSE f,
                            Tail(cs))

RECURSIVE FrameTagCategorical(_, _)
FrameTagCategorical(f, cs) ==
    IF cs = <<>> THEN f
    ELSE FrameTagCategorical(IF HasCol(f.work, Head(cs))
                             THEN AssignInPlace(f, AsCategory(f.work, Head(cs))) ELSE f,
                             Tail(cs))

\* df[c] = df[c].fillna(v), required: without the test that the column is there
FrameFill(f, c, v, strict, required) ==
    IF ~f.ok THEN f
    ELSE IF ~HasCol(f.work, c) THEN (IF required THEN Raise(f, "KeyError") ELSE f)
    ELSE LET r == FillNa(f.work, c, v, strict)
         IN  IF r.ok THEN AssignInPlace(f, r.table) ELSE Raise(f, r.etype)

\* preprocess, lines 74-78
FrameEncodeMonth(f) ==
    IF ~HasCol(f.work, "Policy_Start_Month") THEN f
    ELSE LET t == f.work
             month_num == [i \in DOMAIN t.rows |-> MONTH_MAP(t.rows[i]["Policy_Start_Month"])]
             f1 == AssignInPlace(f, SetColumn(t, "month_sin",
                       [i \in DOMAIN t.rows |-> MonthSin[month_num[i]]]))
             f2 == AssignInPlace(f1, SetColumn(f1.work, "month_cos",
                       [i \in DOMAIN t.rows |-> MonthCos[month_num[i]]]))
         IN  Rebind(f2, DropColumn(f2.work, "Policy_Start_Month"))

\* solution.py preprocess(df), statement by statement
preprocess_frame(df, strict) ==
    LET f1 == FrameDropIfPresent(CopyFrame(df), PreprocessDropped)
        f2 == FrameDropIfPresent(f1, << TARGET_COLUMN >>)
        f3 == FrameFill(f2, "Child_Dependents", "0", strict, TRUE)
        f4 == FrameFill(f3, "Deductible_Tier", "Unknown", strict, TRUE)
        f5 == FrameFill(f4, "Acquisition_Channel", "Unknown", strict, TRUE)
    IN  IF ~f5.ok THEN f5
        ELSE FrameTagCategorical(FrameEncodeMonth(f5), CATEGORICAL_COLUMNS)

\* src/features.py clean_data(df), statement by statement
clean_data_frame(df, strict) ==
    LET f1 == FrameDropIfPresent(CopyFrame(df), CleanDataDropped)
        f2 == FrameFill(f1, "Child_Dependents", "0", strict, FALSE)
        f3 == FrameFill(f2, "Region_Code", "Unknown", strict, FALSE)
        f4 == FrameFill(f3, "Deductible_Tier", "Unknown", strict, FALSE)
        f5 == FrameFill(f4, "Acquisition_Channel", "Unknown", strict, FALSE)
        f6 == FrameFill(f5, "Broker_ID", "-1", strict, FALSE)
    IN  IF ~f6.ok THEN f6
        ELSE FrameTagCategorical(f6, FEATURES_CATEGORICAL_COLUMNS)

\* predict, lines 120-126, on df_work
RECURSIVE FrameBackfill(_, _)
FrameBackfill(f, fs) ==
    IF fs = <<>> THEN f
    ELSE LET g == IF HasCol(f.work, Head(fs)) THEN f
                  ELSE AssignInPlace(f, SetScalar(f.work, Head(fs),
                                                  BackfillDefault(Head(fs))))
         IN  IF g.ok THEN FrameBackfill(g, Tail(fs)) ELSE g

\* solution.py predict(model, df), lines 107-132, statement by statement; the
\* classifier is handed X, a copy
predict_frame(m, df, oc) ==
    LET f1 == CopyFrame(df)
    IN  IF ~HasCol(f1.work, "User_ID") THEN Raise(f1, "ValueError")
        ELSE LET f2 == FrameBackfill(f1, ExpectedFeatures(m))
                 f3 == Rebind(f2, SelectColumns(f2.work, ExpectedFeatures(m)))
             IN  IF oc.raises THEN Raise(f3, oc.etype) ELSE f3

\* ------------------------------------------------------------------------
\* State

VARIABLES
    strictFill,    \* whether the installed pandas validates a fill value when nothing is missing
    model,         \* the model artifact predict is given
    df,            \* the table the caller holds and passes in
    origin,        \* "raw", or the cleaner that made df
    lastOp,        \* the call made on df: "none", "preprocess", "clean_data", "predict"
    cleaned,       \* what the last cleaner call left
    pred,          \* what the last predict call left
    artifactFile,  \* serving: model.joblib on disk (NoArtifact: there is none)
    proc,          \* serving: "starting", "up" or "crashed"
    loads,         \* serving: the number of load_model() calls made
    served,        \* serving: the module-level variable model of API/main.py
    req,           \* serving: per worker thread, the request it handles
    tpc,           \* training: the step train_model is at
    tdata,         \* training: the training table (its labels) and the run's locals
    files,         \* training: the files the run has written, with their contents
    tlog           \* training: the steps the run has completed, in order

pipeVars == << model, df, origin, lastOp, cleaned, pred >>

serveVars == << artifactFile, proc, loads, served, req >>

trainVars == << tpc, tdata, files, tlog >>

vars == << strictFill, pipeVars, serveVars, trainVars >>

NoResult == Err("", "")

NoPrediction == PredictError(<<>>, FALSE, NoTable, "", "")

\* the caller runs preprocess on its table (a table whose month column
\* clean_data has tagged categorical is not among the inputs modelled); df
\* becomes what the call has left of the caller's table
Preprocess ==
    /\ lastOp = "none"
    /\ "Policy_Start_Month" \notin DOMAIN df.cats
    /\ cleaned' = preprocess(df, strictFill)
    /\ df' = preprocess_frame(df, strictFill).caller
    /\ lastOp' = "preprocess"
    /\ UNCHANGED << strictFill, model, origin, pred, serveVars, trainVars >>

\* the caller runs clean_data on its table
CleanData ==
    /\ lastOp = "none"
    /\ cleaned' = clean_data(df, strictFill)
    /\ df' = clean_data_frame(df, strictFill).caller
    /\ lastOp' = "clean_data"
    /\ UNCHANGED << strictFill, model, origin, pred, serveVars, trainVars >>

\* the caller takes the cleaned table as its table (solution.py run():
\* df_processed = preprocess(df), then predict(model, df_processed))
Adopt ==
    /\ lastOp \in {"preprocess", "clean_data"}
    /\ cleaned.ok
    /\ df' = cleaned.table
    /\ origin' = lastOp
    /\ lastOp' = "none"
    /\ cleaned' = NoResult
    /\ UNCHANGED << strictFill, model, pred, serveVars, trainVars >>

\* the caller runs predict on its table
Predict ==
    /\ lastOp = "none"
    /\ \E oc \in ClassifierOutcomes(Len(df.rows)) :
          /\ pred' = predict(model, df, oc)
          /\ df' = predict_frame(model, df, oc).caller
    /\ lastOp' = "predict"
    /\ UNCHANGED << strictFill, model, origin, cleaned, serveVars, trainVars >>

\* ------------------------------------------------------------------------
\* Claims about the cleaners and the predictor (SpecPipe)

Predicted == lastOp = "predict"

Backfilled == {f \in Range(ExpectedFeatures(model)) : f \notin ColSet(df)}

\* C1 (as claimed): after predict has called the classifier, the table handed
\* to it has every column the model expects, and every expected column the
\* input lacks holds "Unknown" in every row when the model was fit on it as a
\* categorical column and "0" in every row when it is numeric.  Fails: the
\* predictor decides by solution.py's CATEGORICAL_COLUMNS, which has neither
\* Region_Code nor Policy_Start_Month, both tagged categorical by clean_data.
C1_BackfillByModelType ==
    (Predicted /\ pred.called) =>
        \A f \in Range(ExpectedFeatures(model)) :
            /\ f \in ColSet(pred.X)
            /\ f \in Backfilled =>
                  \A i \in DOMAIN pred.X.rows :
                      pred.X.rows[i][f] = IF f \in model.categorical THEN "Unknown" ELSE "0"

\* C2: when predict returns, it returns one identifier and one integer class
\* per input row, in input order: the i-th identifier is the i-th row's
\* User_ID, the classifier was handed the i-th input row as its i-th row, and
\* the i-th class is the integer part of the classifier's i-th output.
C2_OnePredictionPerRow ==
    (Predicted /\ pred.kind = "ok") =>
        /\ HasCol(df, "User_ID")
        /\ DOMAIN pred.User_ID = DOMAIN df.rows
        /\ DOMAIN pred.recommended_bundle = DOMAIN df.rows
        /\ DOMAIN pred.X.rows = DOMAIN df.rows
        /\ DOMAIN pred.y_pred = DOMAIN df.rows
        /\ \A i \in DOMAIN df.rows :
              /\ pred.User_ID[i] = df.rows[i]["User_ID"]
              /\ \A c \in ColSet(pred.X) \cap ColSet(df) : pred.X.rows[i][c] = df.rows[i][c]
              /\ pred.recommended_bundle[i] \in Int
              /\ 10 * pred.recommended_bundle[i] <= pred.y_pred[i]
              /\ pred.y_pred[i] < 10 * (pred.recommended_bundle[i] + 1)

C2_Witness ==
    /\ Predicted
    /\ pred.kind = "ok"
    /\ Backfilled # {}
    /\ pred.User_ID = << "U3", "U1" >>
    /\ pred.y_pred = << 90, 30 >>
    /\ pred.recommended_bundle = << 9, 3 >>

\* C3: a table without User_ID makes predict raise ValueError with the
\* validation message unchanged, return nothing, and never call the classifier.
C3_MissingIdSchemaError ==
    (Predicted /\ ~HasCol(df, "User_ID")) =>
        /\ pred.kind = "error"
        /\ pred.etype = "ValueError"
        /\ pred.text = << "The input DataFrame must contain a 'User_ID' column." >>
        /\ pred.User_ID = <<>>
        /\ pred.recommended_bundle = <<>>
        /\ ~pred.called

C3_Witness ==
    /\ Predicted
    /\ ~HasCol(df, "User_ID")
    /\ Len(df.rows) = 2
    /\ pred.kind = "error"

InText(x, text) == \E k \in DOMAIN text : text[k] = x

\* C4 (as claimed): every exception predict raises is a ValueError; the
\* missing-identifier failure keeps its message as it is, and every exception
\* raised by the prediction call, whatever its type, has its type name and its
\* message in the text.  Fails for a ValueError (or a subclass) raised by the
\* classifier: it is re-raised with the message alone.
C4_TypeNameAlwaysKept ==
    (Predicted /\ pred.kind = "error") =>
        /\ pred.etype = "ValueError"
        /\ IF pred.called
           THEN InText(pred.raised, pred.text) /\ InText(pred.raised_msg, pred.text)
           ELSE pred.text = << pred.raised_msg >>

\* C4 (amended): every exception predict raises is a ValueError whose text
\* holds the original message; an exception that is not a ValueError has
\* the text "An error occurred during prediction: <type>: <message>", and a
\* ValueError or a subclass of it (the missing-identifier failure, or one the
\* classifier raises) is re-raised with the message alone.
C4_RewrapByType ==
    (Predicted /\ pred.kind = "error") =>
        /\ pred.etype = "ValueError"
        /\ InText(pred.raised_msg, pred.text)
        /\ IF pred.raised \in {"ValueError", "LGBMNotFittedError"}
           THEN pred.text = << pred.raised_msg >>
           ELSE pred.text = << "An error occurred during prediction: ",
                               pred.raised, ": ", pred.raised_msg >>

C4_Witness ==
    /\ Predicted
    /\ pred.kind = "error"
    /\ pred.called
    /\ pred.raised = "LGBMNotFittedError"
    /\ pred.text = << "bad input" >>

\* C5 (as claimed): a cleaner applied to its own output (a table with rows) succeeds and gives
\* the table it was given (same columns, values and categorical tagging).
\* Fails where pandas validates the fill value of a category column that has
\* nothing missing: "Unknown" is no category of a column cleaned without it.
C5_CleanIdempotent ==
    (lastOp \in {"preprocess", "clean_data"} /\ origin = lastOp /\ Len(df.rows) > 0) =>
        /\ cleaned.ok
        /\ cleaned.table = df

\* C6 (as claimed): no table cleaned from one with rows has Employer_ID, Broker_ID or
\* Region_Code.  Fails for clean_data, which drops Employer_ID alone.
C6_UnreliableColumnsDropped ==
    (lastOp \in {"preprocess", "clean_data"} /\ cleaned.ok /\ Len(df.rows) > 0) =>
        ColSet(cleaned.table) \cap {"Employer_ID", "Broker_ID", "Region_Code"} = {}

\* C11: preprocess, clean_data and predict leave the table the caller passed
\* in as it was, whether they return or raise: same columns in the same order,
\* same values, same dtypes.
C11_CallerTableUntouched ==
    [][(lastOp = "none" /\ lastOp' \in {"preprocess", "clean_data", "predict"})
          => df' = df]_vars

\* the three calls agree with the functions' results: what the local name
\* refers to at the end is the table returned
FrameAgreesWithResult ==
    /\ lastOp = "preprocess" =>
          LET f == preprocess_frame(df, strictFill)
          IN  f.ok = cleaned.ok /\ (f.ok => f.work = cleaned.table)
    /\ lastOp = "clean_data" =>
          LET f == clean_data_frame(df, strictFill)
          IN  f.ok = cleaned.ok /\ (f.ok => f.work = cleaned.table)
    /\ (lastOp = "predict" /\ pred.called) => pred.X.cols = ExpectedFeatures(model)

\* clean_data has returned a table with the missing cells filled and columns
\* tagged categorical, from a table it had no column to drop of, and the
\* caller's table still has the missing cell and no categorical column
C11_Witness ==
       /\ lastOp = "clean_data" /\ cleaned.ok
       /\ ~HasCol(df, "Employer_ID")
       /\ \E i \in DOMAIN df.rows : df.rows[i]["Child_Dependents"] = NaN
       /\ \A i \in DOMAIN df.rows : cleaned.table.rows[i]["Child_Dependents"] # NaN
       /\ DOMAIN df.cats = {} /\ DOMAIN cleaned.table.cats # {}

\* ------------------------------------------------------------------------
\* API/main.py: the serving adapter

\* dict.get(key, default)
Get(dict, key, default) == IF key \in DOMAIN dict THEN dict[key] ELSE default

OCCUPATION_TO_EMPLOYMENT ==
    ("professional" :> "Employed") @@ ("business" :> "Self-Employed")
    @@ ("employee" :> "Employed") @@ ("retired" :> "Retired")
    @@ ("self-employed" :> "Self-Employed")

RISK_TO_DEDUCTIBLE ==
    ("low" :> "High") @@ ("medium" :> "Medium") @@ ("high" :> "Low")

Max(a, b) == IF a >= b THEN a ELSE b

\* line 66
has_existing(data) == data.currentInsurance \notin {"", "none"}

\* line 69
child_deps(data) == IF data.hasChildren THEN 1 ELSE 0

adult_deps_Unclamped(data) == data.dependents - child_deps(data)

\* line 70
adult_deps(data) == Max(0, data.dependents - child_deps(data))

\* the keys of the row dictionary, in the order they are written
RowCols ==
    << "User_ID", "Policy_Cancelled_Post_Purchase", "Policy_Start_Month",
       "Policy_Start_Year", "Policy_Start_Week", "Policy_Start_Day",
       "Grace_Period_Extensions", "Previous_Policy_Duration_Months",
       "Adult_Dependents", "Child_Dependents", "Infant_Dependents",
       "Existing_Policyholder", "Previous_Claims_Filed", "Years_Without_Claims",
       "Policy_Amendments_Count", "Underwriting_Processing_Days", "Vehicles_on_Policy",
       "Custom_Riders_Requested", "Broker_Agency_Type", "Deductible_Tier",
       "Acquisition_Channel", "Payment_Schedule", "Employment_Status",
       "Estimated_Annual_Income", "Days_Since_Quote" >>

\* lines 72-98: the raw record of a request; data.now is datetime.now()
BuildRow(data) ==
    [c \in Range(RowCols) |->
        CASE c = "User_ID" -> "U0001"
          [] c = "Policy_Start_Month" -> data.now.month
          [] c = "Policy_Start_Year" -> ToString(data.now.year)
          [] c = "Policy_Start_Week" -> ToString(data.now.week)
          [] c = "Policy_Start_Day" -> ToString(data.now.day)
          [] c = "Previous_Policy_Duration_Months" ->
                 IF has_existing(data) THEN "12" ELSE "0"
          [] c = "Adult_Dependents" -> ToString(adult_deps(data))
          [] c = "Child_Dependents" -> ToString(child_deps(data))
          [] c = "Existing_Policyholder" -> IF has_existing(data) THEN "1" ELSE "0"
          [] c = "Previous_Claims_Filed" -> ToString(data.claimsHistory)
          [] c = "Years_Without_Claims" -> ToString(Max(0, 5 - data.claimsHistory))
          [] c = "Underwriting_Processing_Days" -> "5"
          [] c = "Vehicles_on_Policy" -> ToString(data.vehicles)
          [] c = "Broker_Agency_Type" -> "Direct"
          [] c = "Deductible_Tier" -> Get(RISK_TO_DEDUCTIBLE, data.riskTolerance, "Medium")
          [] c = "Acquisition_Channel" -> "Online"
          [] c = "Payment_Schedule" -> "Monthly"
          [] c = "Employment_Status" ->
                 Get(OCCUPATION_TO_EMPLOYMENT, data.occupation, "Employed")
          [] c = "Estimated_Annual_Income" -> data.income
          [] OTHER -> "0"]

\* line 100: pd.DataFrame([row])
RowFrame(data) == [cols |-> RowCols, rows |-> << BuildRow(data) >>, cats |-> <<>>]

\* the request bodies (AssessmentInput; age, maritalStatus, homeOwner and
\* propertyValue are not read by the handler) with the time of the request
Clocks ==
    { [month |-> "Nov", year |-> 2026, week |-> 45, day |-> 4] }

Request(occ, dep, kids, ins, claims, risk, now) ==
    [occupation |-> occ, income |-> "75000.0", dependents |-> dep, hasChildren |-> kids,
     vehicles |-> 1, currentInsurance |-> ins, claimsHistory |-> claims,
     riskTolerance |-> risk, now |-> now]

AllInputs ==
    { Request(occ, dep, kids, ins, claims, risk, now) :
        occ \in {"professional", "business", "employee", "retired", "self-employed",
                 "student"},
        dep \in {-1, 0, 1, 2},
        kids \in BOOLEAN,
        ins \in {"", "none", "basic"},
        claims \in {0, 7},
        risk \in {"low", "medium", "high", "extreme"},
        now \in Clocks }

\* the request of the end-to-end scenario, and one that differs in every field
ServeInputs ==
    { Request("employee", 2, TRUE, "none", 0, "medium", now) : now \in Clocks }
    \cup { Request("retired", 0, FALSE, "basic", 7, "low", now) : now \in Clocks }

NoData == Request("", 0, FALSE, "", 0, "", [month |-> "", year |-> 0, week |-> 0, day |-> 0])

Workers == 1..NumWorkers

IdleReq ==
    [pc |-> "idle", data |-> NoData, table |-> NoTable,
     status |-> 0, bundle_id |-> -1, detail |-> <<>>]

Answer(status, bundle_id, detail) ==
    [pc |-> "answered", data |-> NoData, table |-> NoTable,
     status |-> status, bundle_id |-> bundle_id, detail |-> detail]

\* lines 23-24: model = load_model(), run once when the module is imported;
\* joblib.load raises when there is no model.joblib and the process ends
Startup ==
    /\ proc = "starting"
    /\ loads' = loads + 1
    /\ IF artifactFile # <<>>
       THEN served' = artifactFile /\ proc' = "up"
       ELSE served' = served /\ proc' = "crashed"
    /\ UNCHANGED << strictFill, artifactFile, req, pipeVars, trainVars >>

\* lines 57-59: GET /health
Health(i) ==
    /\ proc = "up"
    /\ req[i].pc = "idle"
    /\ req' = [req EXCEPT ![i] = Answer(200, -1, << "status", "ok" >>)]
    /\ UNCHANGED << strictFill, artifactFile, proc, loads, served, pipeVars, trainVars >>

\* lines 62-100: POST /predict, up to the one-row table
Receive(i, inputs) ==
    /\ proc = "up"
    /\ req[i].pc = "idle"
    /\ \E data \in inputs :
          req' = [req EXCEPT ![i] = [IdleReq EXCEPT !.pc = "built", !.data = data,
                                                    !.table = RowFrame(data)]]
    /\ UNCHANGED << strictFill, artifactFile, proc, loads, served, pipeVars, trainVars >>

\* line 101, and lines 107-108 when preprocess raises
CleanStep(i) ==
    /\ req[i].pc = "built"
    /\ LET r == preprocess(req[i].table, strictFill)
       IN  req' = [req EXCEPT ![i] =
                     IF r.ok THEN [req[i] EXCEPT !.pc = "cleaned", !.table = r.table]
                     ELSE Answer(500, -1, << r.msg >>)]
    /\ UNCHANGED << strictFill, artifactFile, proc, loads, served, pipeVars, trainVars >>

\* lines 102-105, and lines 107-108 when predict raises
PredictCore(i) ==
    /\ req[i].pc = "cleaned"
    /\ \E oc \in ClassifierOutcomes(Len(req[i].table.rows)) :
          LET result == predict(served[1], req[i].table, oc)
          IN  req' = [req EXCEPT ![i] =
                        IF result.kind = "ok"
                        THEN Answer(200, result.recommended_bundle[1], <<>>)
                        ELSE Answer(500, -1, result.text)]

PredictStep_Reloading(i) ==
    /\ PredictCore(i)
    /\ loads' = loads + 1
    /\ served' = artifactFile
    /\ UNCHANGED << strictFill, artifactFile, proc, pipeVars, trainVars >>

PredictStep(i) ==
    /\ PredictCore(i)
    /\ UNCHANGED << strictFill, artifactFile, proc, loads, served, pipeVars, trainVars >>

\* the response is sent and the worker thread is free again
Finish(i) ==
    /\ req[i].pc = "answered"
    /\ req' = [req EXCEPT ![i] = IdleReq]
    /\ UNCHANGED << strictFill, artifactFile, proc, loads, served, pipeVars, trainVars >>

\* ------------------------------------------------------------------------
\* Claims about the serving adapter (SpecAdapter, SpecServe)

\* C7: the raw record of every request has Child_Dependents = 1 if
\* hasChildren else 0, Adult_Dependents = max(0, dependents - Child_Dependents),
\* Existing_Policyholder = 1 exactly when currentInsurance is neither "" nor
\* "none", Deductible_Tier and Employment_Status by the fixed lookups with
\* their defaults; the scenario's request gives 1, 1, 0, "Medium", "Employed".
C7_AdapterDerivedFields ==
    \A i \in Workers :
        req[i].pc = "built" =>
            LET d == req[i].data
                row == req[i].table.rows[1]
                kids == IF d.hasChildren THEN 1 ELSE 0
            IN  /\ Len(req[i].table.rows) = 1
                /\ row["Child_Dependents"] = ToString(kids)
                /\ row["Adult_Dependents"] =
                       ToString(IF d.dependents - kids > 0 THEN d.dependents - kids ELSE 0)
                /\ row["Existing_Policyholder"] = "1" <=>
                       (d.currentInsurance # "" /\ d.currentInsurance # "none")
                /\ row["Existing_Policyholder"] \in {"0", "1"}
                /\ row["Deductible_Tier"] =
                       CASE d.riskTolerance = "low" -> "High"
                         [] d.riskTolerance = "high" -> "Low"
                         [] OTHER -> "Medium"
                /\ row["Employment_Status"] =
                       CASE d.occupation \in {"business", "self-employed"} -> "Self-Employed"
                         [] d.occupation = "retired" -> "Retired"
                         [] OTHER -> "Employed"
                /\ (/\ d.dependents = 2 /\ d.hasChildren /\ d.riskTolerance = "medium"
                    /\ d.occupation = "employee" /\ d.currentInsurance = "none")
                   => /\ row["Adult_Dependents"] = "1"
                      /\ row["Child_Dependents"] = "1"
                      /\ row["Existing_Policyholder"] = "0"
                      /\ row["Deductible_Tier"] = "Medium"
                      /\ row["Employment_Status"] = "Employed"

C7_Witness ==
    /\ req[1].pc = "built"
    /\ req[1].data.dependents = 2
    /\ req[1].data.hasChildren
    /\ req[1].data.riskTolerance = "medium"
    /\ req[1].data.occupation = "employee"
    /\ req[1].data.currentInsurance = "none"
    /\ req[1].table.rows[1]["Adult_Dependents"] = "1"

\* C8: the artifact is loaded exactly once, at start and before any request
\* is handled, and whatever requests are in flight or were answered, the
\* module's model is what that one load gave: no request reloads, replaces or
\* changes it.
C8_ModelLoadedOnce ==
    /\ proc = "starting" => (loads = 0 /\ served = <<>>)
    /\ proc = "up" => (loads = 1 /\ served = artifactFile /\ served # <<>>)
    /\ proc # "up" => \A i \in Workers : req[i].pc = "idle"

C8_Witness ==
    /\ proc = "up"
    /\ req[1].pc = "answered" /\ req[1].status = 500
    /\ req[2].pc = "cleaned"
    /\ loads = 1

\* ------------------------------------------------------------------------
\* src/train.py: the trainer

\* n_estimators of the probe model
ProbeEstimators == 450

\* test_size=0.15, in percent
TestSizePercent == 15

\* the training table with c0 rows of class "0" followed by c1 rows of class "1"
TrainRow(i, label) ==
    IF i % 2 = 1
    THEN RawRow(ToString(i), "R1", "7", "E1", "2", "Low", "Online", "Employed", "1", "Jul", label)
    ELSE RawRow(ToString(i), NaN, NaN, NaN, NaN, NaN, NaN, "Retired", "0", NaN, label)

TrainTable(c0, c1) ==
    FullRawTable([i \in 1..(c0 + c1) |-> TrainRow(i, IF i <= c0 THEN "0" ELSE "1")])

\* train.csv: missing (<<>>), or a table, with or without the target column
TrainFiles ==
    LET tables == {TrainTable(c0, c1) : c0 \in 0..MaxPerClass, c1 \in 0..MaxPerClass}
    IN  {<<>>} \cup {<< t >> : t \in tables}
        \cup {<< DropColumn(TrainTable(2, 2), TARGET_COLUMN) >>}

Classes(y, rows) == {y[i] : i \in rows}

CountOf(y, rows, c) == Cardinality({i \in rows : y[i] = c})

\* compute_class_weights(y): per class present, 1 / log(1.2 + freq), kept as
\* the frequency (count, total) it is computed from
compute_class_weights(y, rows) ==
    [c \in Classes(y, rows) |-> << CountOf(y, rows, c), Cardinality(rows) >>]

\* train_test_split(test_size=0.15): the size of the validation part,
\* ceil(0.15 * n)
TestCount(n) == (TestSizePercent * n + 99) \div 100

\* train_test_split(stratify=y) raises ValueError unless every class has two
\* members and both parts can hold one row of every class
Stratifiable(y) ==
    LET all == DOMAIN y
        n == Len(y)
        k == Cardinality(Classes(y, all))
    IN  /\ n >= 2
        /\ \A c \in Classes(y, all) : CountOf(y, all, c) >= 2
        /\ TestCount(n) >= k
        /\ n - TestCount(n) >= k

NoFit ==
    [name |-> "", rows |-> {}, n_estimators |-> 0, class_weight |-> <<>>,
     categorical_feature |-> {}, features |-> <<>>, booster |-> "", best_iteration |-> 0]

\* LGBMClassifier(n_estimators=n, class_weight=cw).fit(X[rows], y[rows],
\* categorical_feature=cats)
Fit(name, X, rows, n, cw, best) ==
    [name |-> name, rows |-> rows, n_estimators |-> n, class_weight |-> cw,
     categorical_feature |-> DOMAIN X.cats, features |-> X.cols, booster |-> "fit",
     best_iteration |-> best]

NoRun ==
    [csv |-> <<>>, X |-> NoTable, y |-> <<>>, train |-> {}, val |-> {},
     probe |-> NoFit, best_iter |-> 0, final |-> NoFit, error |-> ""]

Written(name, content) == (name :> content) @@ files

\* a step raises: the run ends with the error and nothing is undone
Abort(error) ==
    /\ tpc' = "aborted"
    /\ tdata' = [tdata EXCEPT !.error = error]

Step(next, name) ==
    /\ tpc' = next
    /\ tlog' = Append(tlog, name)

TrainFrame == << strictFill, pipeVars, serveVars >>

\* line 81: pd.read_csv(train_path)
LoadCsv ==
    /\ tpc = "start"
    /\ IF tdata.csv = <<>>
       THEN Abort("FileNotFoundError") /\ UNCHANGED tlog
       ELSE Step("loaded", "read_csv") /\ UNCHANGED tdata
    /\ UNCHANGED << files, TrainFrame >>

\* lines 85-88: clean_data, then split_features_target
CleanAndSplit ==
    /\ tpc = "loaded"
    /\ LET c == clean_data(tdata.csv[1], strictFill)
           r == IF c.ok THEN split_features_target(c.table) ELSE c
       IN  IF r.ok
           THEN /\ tdata' = [tdata EXCEPT !.X = r.table,
                                          !.y = Column(c.table, TARGET_COLUMN)]
                /\ Step("split", "split_features_target")
           ELSE Abort(r.etype) /\ UNCHANGED tlog
    /\ UNCHANGED << files, TrainFrame >>

\* lines 93-95: the stratified hold-out; which rows it takes is the library's
\* choice among the parts of the right size
TrainTestSplit ==
    /\ tpc = "split"
    /\ IF Stratifiable(tdata.y)
       THEN /\ \E val \in SUBSET (DOMAIN tdata.y) :
                  /\ Cardinality(val) = TestCount(Len(tdata.y))
                  /\ tdata' = [tdata EXCEPT !.val = val, !.train = (DOMAIN tdata.y) \ val]
            /\ Step("held_out", "train_test_split")
       ELSE Abort("ValueError") /\ UNCHANGED tlog
    /\ UNCHANGED << files, TrainFrame >>

\* lines 98-133: the probe model, fit on the training part with early
\* stopping on the validation part; best_iter = probe_model.best_iteration_
ProbeFit ==
    /\ tpc = "held_out"
    /\ \/ \E best \in 1..(IF MaxBestIter < ProbeEstimators THEN MaxBestIter
                          ELSE ProbeEstimators) :
             /\ tdata' = [tdata EXCEPT
                    !.probe = Fit("probe", tdata.X, tdata.train, ProbeEstimators,
                                  compute_class_weights(tdata.y, tdata.train), best),
                    !.best_iter = best]
             /\ Step("probed", "probe_fit")
       \/ Abort("LightGBMError") /\ UNCHANGED tlog
    /\ UNCHANGED << files, TrainFrame >>

\* lines 136-144: the probe model's validation metrics, printed
Evaluate ==
    /\ tpc = "probed"
    /\ Step("evaluated", "evaluate")
    /\ UNCHANGED << tdata, files, TrainFrame >>

\* lines 149-169: the final model, fit on all rows
FinalFit ==
    /\ tpc = "evaluated"
    /\ \/ /\ tdata' = [tdata EXCEPT
                 !.final = Fit("final", tdata.X, DOMAIN tdata.y, tdata.best_iter,
                               compute_class_weights(tdata.y, DOMAIN tdata.y), 0)]
          /\ Step("fitted", "final_fit")
       \/ Abort("LightGBMError") /\ UNCHANGED tlog
    /\ UNCHANGED << files, TrainFrame >>

\* lines 173-174: final_model.booster_.save_model(compact_txt, num_iteration=best_iter);
\* here and below a write that fails is taken to leave no file at all
SaveCompact ==
    /\ tpc = "fitted"
    /\ \/ /\ files' = Written("compact.txt",
                 [kind |-> "booster", model |-> tdata.final, iterations |-> tdata.best_iter])
          /\ Step("compact_saved", "save_compact")
          /\ UNCHANGED tdata
       \/ Abort("OSError") /\ UNCHANGED << tlog, files >>
    /\ UNCHANGED TrainFrame

\* lines 177-178: the booster read back from compact.txt replaces the model's
ReloadBooster ==
    /\ tpc = "compact_saved"
    /\ tdata' = [tdata EXCEPT !.final.booster = "compact.txt"]
    /\ Step("reloaded", "reload_booster")
    /\ UNCHANGED << files, TrainFrame >>

DumpedModel_Probe(d) == d.probe

\* line 182: the model joblib.dump is given
DumpedModel(d) == d.final

\* line 182: joblib.dump(final_model, model_output_path)
DumpJoblib ==
    /\ tpc = "reloaded"
    /\ \/ /\ files' = Written("model.joblib",
                 [kind |-> "joblib", model |-> DumpedModel(tdata), iterations |-> 0])
          /\ Step("dumped", "dump")
          /\ UNCHANGED tdata
       \/ Abort("OSError") /\ UNCHANGED << tlog, files >>
    /\ UNCHANGED TrainFrame

\* save_feature_importance, lines 46-54: feature_importance.csv
SaveImportanceCsv ==
    /\ tpc = "dumped"
    /\ \/ /\ files' = Written("feature_importance.csv",
                 [kind |-> "csv", model |-> tdata.final, iterations |-> 0])
          /\ Step("csv_saved", "importance_csv")
          /\ UNCHANGED tdata
       \/ Abort("OSError") /\ UNCHANGED << tlog, files >>
    /\ UNCHANGED TrainFrame

\* save_feature_importance, lines 56-65: top20_feature_plot.png; then
\* train_model returns
SaveImportancePlot ==
    /\ tpc = "csv_saved"
    /\ \/ /\ files' = Written("top20_feature_plot.png",
                 [kind |-> "png", model |-> tdata.final, iterations |-> 0])
          /\ Step("done", "importance_plot")
          /\ UNCHANGED tdata
       \/ Abort("OSError") /\ UNCHANGED << tlog, files >>
    /\ UNCHANGED TrainFrame

\* ------------------------------------------------------------------------
\* Claims about the trainer (SpecTrain)

\* C9 (as claimed): a run that aborts leaves none of its files behind.
\* Fails: the files are written one after the other and nothing removes them
\* when a later step raises.
C9_NoPartialArtifacts ==
    tpc = "aborted" => DOMAIN files = {}

Position(name) == CHOOSE k \in DOMAIN tlog : tlog[k] = name

Did(name) == \E k \in DOMAIN tlog : tlog[k] = name

\* C10: model.joblib is written only after the final fit and holds the final
\* model, never the probe; in a completed run the probe fit, on the training
\* part alone, comes first and fixes best_iter, and the final model is fit
\* after it on all rows (training and validation part), with the class
\* weights of all labels and best_iter iterations.
C10_ProbeThenFinalOnAllRows ==
    /\ "model.joblib" \in DOMAIN files /\ files["model.joblib"].kind = "joblib" =>
          /\ Did("final_fit")
          /\ files["model.joblib"].model.name = "final"
          /\ files["model.joblib"].model.rows = DOMAIN tdata.y
          /\ files["model.joblib"].model.n_estimators = tdata.best_iter
    /\ tpc = "done" =>
          /\ Did("probe_fit") /\ Did("final_fit") /\ Did("dump")
          /\ Position("probe_fit") < Position("final_fit")
          /\ Position("final_fit") < Position("dump")
          /\ tdata.probe.rows = tdata.train
          /\ tdata.train \cap tdata.val = {}
          /\ tdata.best_iter = tdata.probe.best_iteration
          /\ tdata.final.rows = tdata.train \cup tdata.val
          /\ tdata.final.rows = 1..Len(tdata.csv[1].rows)
          /\ tdata.final.n_estimators = tdata.best_iter
          /\ \A c \in {"0", "1"} :
                LET n == Cardinality({i \in DOMAIN tdata.y : tdata.y[i] = c})
                IN  IF n = 0 THEN c \notin DOMAIN tdata.final.class_weight
                    ELSE /\ c \in DOMAIN tdata.final.class_weight
                         /\ tdata.final.class_weight[c] = << n, Len(tdata.y) >>
          /\ files["model.joblib"].model = tdata.final

C10_Witness ==
    /\ tpc = "done"
    /\ tdata.val # {}
    /\ Cardinality(tdata.train) > Cardinality(tdata.val)
    /\ tdata.best_iter = 2
    /\ Cardinality(DOMAIN tdata.final.class_weight) = 2
    /\ tdata.final.class_weight # tdata.probe.class_weight
    /\ files["model.joblib"].model.n_estimators = 2

\* ------------------------------------------------------------------------
\* Specifications

IdlePipe ==
    /\ model = BareArtifact
    /\ df = NoTable
    /\ origin = "raw"
    /\ lastOp = "none"
    /\ cleaned = NoResult
    /\ pred = NoPrediction

IdleServe ==
    /\ artifactFile = <<>>
    /\ proc = "starting"
    /\ loads = 0
    /\ served = <<>>
    /\ req = [i \in Workers |-> IdleReq]

IdleTrain ==
    /\ tpc = "start"
    /\ tdata = NoRun
    /\ files = <<>>
    /\ tlog = <<>>

\* the cleaners and the predictor, called on a table
InitPipe ==
    /\ strictFill \in BOOLEAN
    /\ model \in Artifacts(strictFill)
    /\ df \in RawTables
    /\ origin = "raw"
    /\ lastOp = "none"
    /\ cleaned = NoResult
    /\ pred = NoPrediction
    /\ IdleServe
    /\ IdleTrain

NextPipe == Preprocess \/ CleanData \/ Adopt \/ Predict

SpecPipe == InitPipe /\ [][NextPipe]_vars

\* the serving process
InitServe ==
    /\ strictFill \in BOOLEAN
    /\ artifactFile \in {<<>>} \cup {<< a >> : a \in Artifacts(strictFill)}
    /\ proc = "starting"
    /\ loads = 0
    /\ served = <<>>
    /\ req = [i \in Workers |-> IdleReq]
    /\ IdlePipe
    /\ IdleTrain

\* requests handled by NumWorkers threads at once
NextServe ==
    \/ Startup
    \/ \E i \in Workers :
          \/ Health(i)
          \/ Receive(i, ServeInputs)
          \/ CleanStep(i)
          \/ PredictStep(i)
          \/ Finish(i)

SpecServe == InitServe /\ [][NextServe]_vars

\* one request at a time, with every request body
NextAdapter ==
    \/ Startup
    \/ Health(1)
    \/ Receive(1, AllInputs)
    \/ CleanStep(1)
    \/ PredictStep(1)
    \/ Finish(1)

SpecAdapter == InitServe /\ [][NextAdapter]_vars

\* one run of train_model
InitTrain ==
    /\ strictFill \in BOOLEAN
    /\ tpc = "start"
    /\ tdata \in {[NoRun EXCEPT !.csv = f] : f \in TrainFiles}
    /\ files = <<>>
    /\ tlog = <<>>
    /\ IdlePipe
    /\ IdleServe

NextTrain ==
    \/ LoadCsv
    \/ CleanAndSplit
    \/ TrainTestSplit
    \/ ProbeFit
    \/ Evaluate
    \/ FinalFit
    \/ SaveCompact
    \/ ReloadBooster
    \/ DumpJoblib
    \/ SaveImportanceCsv
    \/ SaveImportancePlot

SpecTrain == InitTrain /\ [][NextTrain]_vars

====
